---- MODULE Spec2Model ----
(***************************************************************************)
(* The hare message broker of go-spacemesh (src/hare/broker.go, lines      *)
(* 1-180): one dispatcher goroutine that takes gossip envelopes from the   *)
(* transport, decodes, gates on the instance id, validates, reports the    *)
(* verdict and routes to a per-instance buffered channel or to the pending *)
(* list; Register / Unregister / Start / Close are called by other tasks.  *)
(*                                                                         *)
(* Atomicity.  A dispatcher step holds at most one access to shared state: *)
(* an RLock..RUnlock or Lock..Unlock section of the dispatcher holds no    *)
(* blocking operation and is one step, enabled when no writer holds the    *)
(* mutex.  Register holds the write lock across channel sends that can     *)
(* block, so it is split at every send.  Unregister is one locked section. *)
(***************************************************************************)
EXTENDS Integers, Sequences, FiniteSets, TLC

\* ---------------------------------------------------------------- constants
InboxCapacity == 100

\* InstanceId is a fixed-width unsigned integer type, so expInstId+1 wraps to 0
\* at the largest id.  The model keeps the wrap-around and uses a 16-bit width:
\* only the existence of a largest id matters to the broker, not its value.
IdModulus == 65536

\* ------------------------------------------------------------------- bounds
MaxId == 1
MaxEnv == 2
MaxRegs == 2
MaxRecv == 1
MaxSkipId == 3
MaxStartTasks == 2

TopId == IdModulus - 1
\* The ids of a run started from NewBroker, and of a run in which Register
\* skips an id.
FreshIds == (0 .. MaxId) \cup {TopId}
SkipIds == 0 .. MaxSkipId
InstanceIds == FreshIds \cup SkipIds

\* The tasks that call Start concurrently.
StartTasks == 1 .. MaxStartTasks

NoId == -1
NoQueue == 0
NoMsg == [seq |-> 0, id |-> NoId]
NoReg == [id |-> NoId, todo |-> <<>>, wasNext |-> FALSE]

VARIABLES
    isStarted,      \* Broker.isStarted
    inbox,          \* Broker.inbox: 0 = nil, n = the channel of the n-th subscription
    launched,       \* number of dispatcher goroutines launched by Start
    lastStart,      \* result of the latest Start call: "none" (no call yet), "ok", "err"
    closed,         \* Closer.channel is closed
    outbox,         \* Broker.outbox: instance id -> index in queues[id] (NoQueue = no entry)
    pending,        \* Broker.pending: instance id -> list (<<>> = no entry)
    maxReg,         \* Broker.maxReg
    mutex,          \* Broker.mutex: "free", or "register" (write-locked by Register)
    queues,         \* instance id -> the channels Register made for it, in creation order:
                    \* placed = messages sent, rd = number received, parked = the
                    \* pending list Register found, isClosed = close(c) was called
    reg,            \* the Register call that holds the write lock, or NoReg
    pc,             \* dispatcher position
    branch,         \* pipeline branch of the envelope taken last ("msg": in process)
    msg,            \* hareMsg of the envelope being processed
    futureMsg,      \* dispatcher local futureMsg
    c,              \* dispatcher local c: index in queues[msg.id] of the channel found
    reports,        \* ReportValidation verdicts given for the last envelope taken
    taken,          \* number of envelopes the dispatcher has taken from inbox
    afterUnreg,     \* the message in process was taken while its id was Unregistered
    envLeft, regsLeft, recvLeft,
    ids,            \* the instance ids the callers and the transport use in this run
    startPc         \* position of each task that calls Start concurrently with others:
                    \* "idle", "checked" (read isStarted = false), "ok", "err" (returned)

vars == <<isStarted, inbox, launched, lastStart, closed, outbox, pending,
          maxReg, mutex, queues, reg, pc, branch, msg, futureMsg, c, reports,
          taken, afterUnreg, envLeft, regsLeft, recvLeft, ids,
          startPc>>

brokerState == <<isStarted, inbox, launched, closed, outbox, pending, maxReg,
                 mutex, queues, reg>>

\* ------------------------------------------------------------------ helpers
\* Number of messages buffered in channel q of id (sent and not yet received).
QLen(id, q) == Len(queues[id][q].placed) - queues[id][q].rd

\* Id was passed to Register and then to Unregister, and not to Register since:
\* queues holds a channel for every Register call, outbox the installed ones.
Unregistered(id) ==
    /\ queues[id] # <<>>
    /\ outbox[id] = NoQueue

\* expInstId+1 in the InstanceId type.
Succ(i) == (i + 1) % IdModulus

\* broker.go:111  if msgInstId > expInstId+1
FarFuture(mid, expInstId) == mid > Succ(expInstId)

\* broker.go:118  if msgInstId == expInstId+1
NearFuture(mid, expInstId) == mid = Succ(expInstId)

\* ---------------------------------------------------------------------- Init
\* NewBroker: empty maps, maxReg 0, not started, close channel open.
NewBroker ==
    /\ isStarted = FALSE /\ inbox = 0 /\ launched = 0 /\ lastStart = "none"
    /\ closed = FALSE
    /\ outbox = [i \in InstanceIds |-> NoQueue]
    /\ pending = [i \in InstanceIds |-> <<>>]
    /\ maxReg = 0
    /\ mutex = "free"
    /\ queues = [i \in InstanceIds |-> <<>>]
    /\ reg = NoReg
    /\ pc = "idle" /\ branch = "none" /\ msg = NoMsg /\ futureMsg = FALSE /\ c = NoQueue
    /\ reports = <<>>
    /\ taken = 0
    /\ afterUnreg = FALSE
    /\ envLeft = MaxEnv /\ regsLeft = MaxRegs /\ recvLeft = MaxRecv
    /\ startPc = [t \in StartTasks |-> "idle"]

InitFresh == NewBroker /\ ids = FreshIds

\* A new broker whose callers use consecutive small ids and may skip some.
InitSkip == NewBroker /\ ids = SkipIds

Init == InitFresh

\* The state InitFresh reaches by Start, Register(0) and InboxCapacity envelopes
\* for id 0 that the validator accepted, with the consumer not reading yet: the
\* channel of id 0 is full.  The Register of that prefix is counted against the
\* call budget, and MaxEnv - 1 more envelopes follow.
InitLoaded ==
    /\ isStarted = TRUE /\ inbox = 1 /\ launched = 1 /\ lastStart = "ok"
    /\ closed = FALSE
    /\ outbox = [i \in InstanceIds |-> IF i = 0 THEN 1 ELSE NoQueue]
    /\ pending = [i \in InstanceIds |-> <<>>]
    /\ maxReg = 0
    /\ mutex = "free"
    /\ queues = [i \in InstanceIds |->
                   IF i = 0
                     THEN << [placed |-> [n \in 1 .. InboxCapacity |->
                                            [seq |-> n, id |-> 0]],
                              rd |-> 0, parked |-> <<>>,
                              isClosed |-> FALSE] >>
                     ELSE <<>>]
    /\ reg = NoReg
    /\ pc = "select" /\ branch = "accepted" /\ msg = NoMsg /\ futureMsg = FALSE
    /\ c = NoQueue
    /\ reports = <<TRUE>>
    /\ taken = InboxCapacity
    /\ afterUnreg = FALSE
    /\ envLeft = MaxEnv - 1 /\ regsLeft = MaxRegs - 1 /\ recvLeft = MaxRecv
    /\ ids = FreshIds
    /\ startPc = [t \in StartTasks |-> "idle"]

\* The state NewBroker reaches by Start and InboxCapacity envelopes for id 1
\* that the validator accepted, with no Register call yet: maxReg is 0, id 1 is
\* the near-future id and all of them are parked.  MaxEnv - 1 more envelopes
\* follow.
InitParked ==
    /\ isStarted = TRUE /\ inbox = 1 /\ launched = 1 /\ lastStart = "ok"
    /\ closed = FALSE
    /\ outbox = [i \in InstanceIds |-> NoQueue]
    /\ pending = [i \in InstanceIds |->
                    IF i = 1
                      THEN [n \in 1 .. InboxCapacity |-> [seq |-> n, id |-> 1]]
                      ELSE <<>>]
    /\ maxReg = 0
    /\ mutex = "free"
    /\ queues = [i \in InstanceIds |-> <<>>]
    /\ reg = NoReg
    /\ pc = "select" /\ branch = "accepted" /\ msg = NoMsg /\ futureMsg = FALSE
    /\ c = NoQueue
    /\ reports = <<TRUE>>
    /\ taken = InboxCapacity
    /\ afterUnreg = FALSE
    /\ envLeft = MaxEnv - 1 /\ regsLeft = MaxRegs /\ recvLeft = MaxRecv
    /\ ids = FreshIds
    /\ startPc = [t \in StartTasks |-> "idle"]

\* --------------------------------------------------------------------- Start
\* Start with the assignment isStarted = true left out.
StartNoFlag ==
    /\ IF isStarted
         THEN /\ lastStart' = "err"
              /\ UNCHANGED <<isStarted, inbox, launched, pc>>
         ELSE /\ isStarted' = isStarted
              /\ inbox' = inbox + 1
              /\ launched' = launched + 1
              /\ pc' = "select"
              /\ lastStart' = "ok"
    /\ UNCHANGED <<ids, startPc, closed, outbox, pending, maxReg, mutex, queues, reg, branch, msg,
                   futureMsg, c, reports, taken, afterUnreg, envLeft,
                   regsLeft, recvLeft>>

\* broker.go:64-76
Start ==
    /\ IF isStarted
         THEN /\ lastStart' = "err"
              /\ UNCHANGED <<isStarted, inbox, launched, pc>>
         ELSE /\ isStarted' = TRUE
              /\ inbox' = inbox + 1
              /\ launched' = launched + 1
              /\ pc' = "select"
              /\ lastStart' = "ok"
    /\ UNCHANGED <<ids, startPc, closed, outbox, pending, maxReg, mutex, queues, reg, branch, msg,
                   futureMsg, c, reports, taken, afterUnreg, envLeft,
                   regsLeft, recvLeft>>

\* Start called from several tasks at once.  isStarted is read at broker.go:65
\* and written at 70 with no lock, so the call is two steps.  First the read
\* of the flag, with the error return when it is set.
StartCheck(t) ==
    /\ startPc[t] = "idle"
    /\ startPc' = [startPc EXCEPT ![t] = IF isStarted THEN "err" ELSE "checked"]
    /\ lastStart' = IF isStarted THEN "err" ELSE lastStart
    /\ UNCHANGED <<ids, isStarted, inbox, launched, closed, outbox, pending, maxReg,
                   mutex, queues, reg, pc, branch, msg, futureMsg, c, reports,
                   taken, afterUnreg, envLeft, regsLeft, recvLeft>>

\* Then broker.go:70-75: set the flag, subscribe, launch, return nil.  The
\* model keeps one dispatcher position: launched counts the goroutines.
StartRun(t) ==
    /\ startPc[t] = "checked"
    /\ startPc' = [startPc EXCEPT ![t] = "ok"]
    /\ isStarted' = TRUE
    /\ inbox' = inbox + 1
    /\ launched' = launched + 1
    /\ pc' = IF pc = "idle" THEN "select" ELSE pc
    /\ lastStart' = "ok"
    /\ UNCHANGED <<ids, closed, outbox, pending, maxReg, mutex, queues, reg, branch,
                   msg, futureMsg, c, reports, taken, afterUnreg, envLeft,
                   regsLeft, recvLeft>>

\* broker.go:30-32 (called once: a second close of the channel panics)
Close ==
    /\ ~closed
    /\ closed' = TRUE
    /\ UNCHANGED <<ids, startPc, isStarted, inbox, launched, lastStart, outbox, pending,
                   maxReg, mutex, queues, reg, pc, branch, msg, futureMsg, c,
                   reports, taken, afterUnreg, envLeft, regsLeft,
                   recvLeft>>

\* ---------------------------------------------------------------- dispatcher
\* The end of one loop iteration: back to the select, locals dropped.
Continue ==
    /\ pc' = "select"
    /\ msg' = NoMsg /\ futureMsg' = FALSE /\ c' = NoQueue /\ afterUnreg' = FALSE

\* Take with return in place of continue after an undecodable or empty envelope.
TakeReturnsOnError(kind, id) ==
    /\ pc = "select" /\ envLeft > 0
    /\ envLeft' = envLeft - 1
    /\ taken' = taken + 1
    /\ branch' = kind
    /\ futureMsg' = FALSE /\ c' = NoQueue
    /\ IF kind = "msg"
         THEN /\ msg' = [seq |-> taken + 1, id |-> id]
              /\ afterUnreg' = Unregistered(id)
              /\ reports' = <<>>
              /\ pc' = "snapshot"
         ELSE /\ msg' = NoMsg
              /\ afterUnreg' = FALSE
              /\ reports' = IF kind = "nil" THEN <<>> ELSE <<FALSE>>
              /\ pc' = IF kind = "nil" THEN "select" ELSE "done"
    /\ UNCHANGED <<ids, startPc, isStarted, inbox, launched, lastStart, closed, outbox,
                   pending, maxReg, mutex, queues, reg, regsLeft,
                   recvLeft>>

\* broker.go:82-103: take an envelope; nil, undecodable and empty ones end here.
Take(kind, id) ==
    /\ pc = "select" /\ envLeft > 0
    /\ envLeft' = envLeft - 1
    /\ taken' = taken + 1
    /\ branch' = kind
    /\ futureMsg' = FALSE /\ c' = NoQueue
    /\ IF kind = "msg"
         THEN /\ msg' = [seq |-> taken + 1, id |-> id]
              /\ afterUnreg' = Unregistered(id)
              /\ reports' = <<>>
              /\ pc' = "snapshot"
         ELSE /\ msg' = NoMsg
              /\ afterUnreg' = FALSE
              /\ reports' = IF kind = "nil" THEN <<>> ELSE <<FALSE>>
              /\ pc' = "select"
    /\ UNCHANGED <<ids, startPc, isStarted, inbox, launched, lastStart, closed, outbox,
                   pending, maxReg, mutex, queues, reg, regsLeft,
                   recvLeft>>

\* Snapshot with the continue of the far-future branch left out: the rejected
\* message falls through to the validator.
SnapshotNoContinue ==
    /\ pc = "snapshot" /\ mutex = "free"
    /\ reports' = IF FarFuture(msg.id, maxReg) THEN Append(reports, FALSE) ELSE reports
    /\ futureMsg' = NearFuture(msg.id, maxReg)
    /\ pc' = "validate"
    /\ UNCHANGED <<ids, startPc, isStarted, inbox, launched, lastStart, closed, outbox,
                   pending, maxReg, mutex, queues, reg, taken, branch, msg, c,
                   afterUnreg, envLeft, regsLeft, recvLeft>>

\* broker.go:105-120: snapshot maxReg under the read lock, then the gate.
Snapshot ==
    /\ pc = "snapshot" /\ mutex = "free"
    /\ IF FarFuture(msg.id, maxReg)
         THEN /\ reports' = Append(reports, FALSE)
              /\ branch' = "farfuture"
              /\ Continue
         ELSE /\ futureMsg' = NearFuture(msg.id, maxReg)
              /\ pc' = "validate"
              /\ UNCHANGED <<reports, branch, msg, c, afterUnreg>>
    /\ UNCHANGED <<ids, startPc, isStarted, inbox, launched, lastStart, closed, outbox,
                   pending, maxReg, mutex, queues, reg, taken,
                   envLeft, regsLeft, recvLeft>>

\* Validate with the ReportValidation(false) of a rejection left out.
ValidateNoReport(ok) ==
    /\ pc = "validate"
    /\ IF ok
         THEN /\ reports' = Append(reports, TRUE)
              /\ branch' = "accepted"
              /\ pc' = "lookup"
              /\ UNCHANGED <<msg, futureMsg, c, afterUnreg>>
         ELSE /\ reports' = reports
              /\ branch' = "invalid"
              /\ Continue
    /\ UNCHANGED <<ids, startPc, isStarted, inbox, launched, lastStart, closed, outbox,
                   pending, maxReg, mutex, queues, reg, taken,
                   envLeft, regsLeft, recvLeft>>

\* Validate with the continue of the rejection branch left out: the rejected
\* message is reported false and goes on to the lookup.
ValidateNoContinue(ok) ==
    /\ pc = "validate"
    /\ reports' = Append(reports, ok)
    /\ branch' = IF ok THEN "accepted" ELSE "invalid"
    /\ pc' = "lookup"
    /\ UNCHANGED <<msg, futureMsg, c, afterUnreg>>
    /\ UNCHANGED <<ids, startPc, isStarted, inbox, launched, lastStart, closed, outbox,
                   pending, maxReg, mutex, queues, reg, taken,
                   envLeft, regsLeft, recvLeft>>

\* broker.go:122-129: the external validator's verdict, then ReportValidation.
Validate(ok) ==
    /\ pc = "validate"
    /\ reports' = Append(reports, ok)
    /\ IF ok
         THEN /\ branch' = "accepted"
              /\ pc' = "lookup"
              /\ UNCHANGED <<msg, futureMsg, c, afterUnreg>>
         ELSE /\ branch' = "invalid"
              /\ Continue
    /\ UNCHANGED <<ids, startPc, isStarted, inbox, launched, lastStart, closed, outbox,
                   pending, maxReg, mutex, queues, reg, taken,
                   envLeft, regsLeft, recvLeft>>

\* broker.go:131-134,137: look the channel up under the read lock.
Lookup ==
    /\ pc = "lookup" /\ mutex = "free"
    /\ IF outbox[msg.id] # NoQueue
         THEN /\ c' = outbox[msg.id]
              /\ pc' = "send"
              /\ UNCHANGED <<msg, futureMsg, afterUnreg>>
         ELSE IF futureMsg
           THEN /\ pc' = "park"
                /\ UNCHANGED <<msg, futureMsg, c, afterUnreg>>
           ELSE Continue
    /\ UNCHANGED <<ids, startPc, isStarted, inbox, launched, lastStart, closed, outbox,
                   pending, maxReg, mutex, queues, reg, branch, reports, taken, envLeft, regsLeft, recvLeft>>

\* Send as a non-blocking send: a message that finds the channel full is dropped.
SendDropWhenFull ==
    /\ pc = "send"
    /\ queues' = IF QLen(msg.id, c) < InboxCapacity
                   THEN [queues EXCEPT ![msg.id][c].placed = Append(@, msg)]
                   ELSE queues
    /\ Continue
    /\ UNCHANGED <<ids, startPc, isStarted, inbox, launched, lastStart, closed, outbox,
                   pending, maxReg, mutex, reg, branch, reports, taken,
                   envLeft, regsLeft, recvLeft>>

\* broker.go:136  c <- hareMsg  (blocks while the channel is full)
Send ==
    /\ pc = "send"
    /\ QLen(msg.id, c) < InboxCapacity
    /\ queues' = [queues EXCEPT ![msg.id][c].placed = Append(@, msg)]
    /\ Continue
    /\ UNCHANGED <<ids, startPc, isStarted, inbox, launched, lastStart, closed, outbox,
                   pending, maxReg, mutex, reg, branch, reports, taken,
                   envLeft, regsLeft, recvLeft>>

\* broker.go:138-143: append to pending under the write lock.
Park ==
    /\ pc = "park" /\ mutex = "free"
    /\ pending' = [pending EXCEPT ![msg.id] = Append(@, msg)]
    /\ Continue
    /\ UNCHANGED <<ids, startPc, isStarted, inbox, launched, lastStart, closed, outbox,
                   maxReg, mutex, queues, reg, branch, reports, taken,
                   envLeft, regsLeft, recvLeft>>

\* broker.go:146-147: the close case of the select.
Stop ==
    /\ pc = "select" /\ closed
    /\ pc' = "done"
    /\ UNCHANGED <<ids, startPc, isStarted, inbox, launched, lastStart, closed, outbox,
                   pending, maxReg, mutex, queues, reg, branch, msg, futureMsg, c,
                   reports, taken, afterUnreg, envLeft, regsLeft,
                   recvLeft>>

\* ------------------------------------------------------------------ Register
\* RegisterBegin with the test id > maxReg left out: maxReg is set to id.
RegisterBeginSetsMaxReg(id) ==
    /\ mutex = "free" /\ regsLeft > 0
    /\ regsLeft' = regsLeft - 1
    /\ mutex' = "register"
    /\ maxReg' = id
    /\ queues' = [queues EXCEPT ![id] =
                     Append(@, [placed |-> <<>>, rd |-> 0, parked |-> pending[id],
                                isClosed |-> FALSE])]
    /\ outbox' = [outbox EXCEPT ![id] = Len(queues[id]) + 1]
    /\ reg' = [id |-> id, todo |-> pending[id], wasNext |-> (id = maxReg + 1)]
    /\ afterUnreg' = (afterUnreg /\ msg.id # id)
    /\ UNCHANGED <<ids, startPc, isStarted, inbox, launched, lastStart, closed, pending,
                   pc, branch, msg, futureMsg, c, reports, taken, envLeft,
                   recvLeft>>

\* broker.go:155-163: lock, raise maxReg, make and install the channel.
RegisterBegin(id) ==
    /\ mutex = "free" /\ regsLeft > 0
    /\ regsLeft' = regsLeft - 1
    /\ mutex' = "register"
    /\ maxReg' = IF id > maxReg THEN id ELSE maxReg
    /\ queues' = [queues EXCEPT ![id] =
                     Append(@, [placed |-> <<>>, rd |-> 0, parked |-> pending[id],
                                isClosed |-> FALSE])]
    /\ outbox' = [outbox EXCEPT ![id] = Len(queues[id]) + 1]
    /\ reg' = [id |-> id, todo |-> pending[id], wasNext |-> (id = maxReg + 1)]
    /\ afterUnreg' = (afterUnreg /\ msg.id # id)
    /\ UNCHANGED <<ids, startPc, isStarted, inbox, launched, lastStart, closed, pending,
                   pc, branch, msg, futureMsg, c, reports, taken, envLeft,
                   recvLeft>>

\* RegisterDrain ranging over the pending list from its end.
RegisterDrainLast ==
    /\ mutex = "register" /\ reg.todo # <<>>
    /\ QLen(reg.id, outbox[reg.id]) < InboxCapacity
    /\ queues' = [queues EXCEPT ![reg.id][outbox[reg.id]].placed =
                                     Append(@, reg.todo[Len(reg.todo)])]
    /\ reg' = [reg EXCEPT !.todo = SubSeq(@, 1, Len(@) - 1)]
    /\ UNCHANGED <<ids, startPc, isStarted, inbox, launched, lastStart, closed, outbox,
                   pending, maxReg, mutex, pc, branch, msg, futureMsg, c, reports,
                   taken, afterUnreg, envLeft, regsLeft, recvLeft>>

\* broker.go:165-167: one send of the drain loop (blocks while the channel is full).
RegisterDrain ==
    /\ mutex = "register" /\ reg.todo # <<>>
    /\ QLen(reg.id, outbox[reg.id]) < InboxCapacity
    /\ queues' = [queues EXCEPT ![reg.id][outbox[reg.id]].placed =
                                     Append(@, Head(reg.todo))]
    /\ reg' = [reg EXCEPT !.todo = Tail(@)]
    /\ UNCHANGED <<ids, startPc, isStarted, inbox, launched, lastStart, closed, outbox,
                   pending, maxReg, mutex, pc, branch, msg, futureMsg, c, reports,
                   taken, afterUnreg, envLeft, regsLeft, recvLeft>>

\* RegisterEnd with the delete of the pending entry left out.
RegisterEndKeepsPending ==
    /\ mutex = "register" /\ reg.todo = <<>>
    /\ mutex' = "free"
    /\ reg' = NoReg
    /\ UNCHANGED <<ids, startPc, isStarted, inbox, launched, lastStart, closed, outbox,
                   pending, maxReg, queues, pc, branch, msg, futureMsg, c, reports,
                   taken, afterUnreg, envLeft, regsLeft, recvLeft>>

\* broker.go:168-172: delete the pending entry, unlock, return the channel.
RegisterEnd ==
    /\ mutex = "register" /\ reg.todo = <<>>
    /\ pending' = [pending EXCEPT ![reg.id] = <<>>]
    /\ mutex' = "free"
    /\ reg' = NoReg
    /\ UNCHANGED <<ids, startPc, isStarted, inbox, launched, lastStart, closed, outbox,
                   maxReg, queues, pc, branch, msg, futureMsg, c, reports, taken,
                   afterUnreg, envLeft, regsLeft, recvLeft>>

\* Unregister that also closes the channel it removes.
UnregisterClosesQueue(id) ==
    /\ mutex = "free"
    /\ outbox' = [outbox EXCEPT ![id] = NoQueue]
    /\ queues' = IF outbox[id] # NoQueue
                   THEN [queues EXCEPT ![id][outbox[id]].isClosed = TRUE]
                   ELSE queues
    /\ UNCHANGED <<ids, startPc, isStarted, inbox, launched, lastStart, closed, pending,
                   maxReg, mutex, reg, pc, branch, msg, futureMsg, c,
                   reports, taken, afterUnreg, envLeft, regsLeft, recvLeft>>

\* broker.go:176-180
Unregister(id) ==
    /\ mutex = "free"
    /\ outbox' = [outbox EXCEPT ![id] = NoQueue]
    /\ UNCHANGED <<ids, startPc, isStarted, inbox, launched, lastStart, closed, pending,
                   maxReg, mutex, queues, reg, pc, branch, msg, futureMsg, c,
                   reports, taken, afterUnreg, envLeft, regsLeft, recvLeft>>

\* ------------------------------------------------------------------ consumer
\* Register has returned channel q of id to its caller.
Returned(id, q) == ~(mutex = "register" /\ reg.id = id /\ q = Len(queues[id]))

\* The consensus instance that registered reads from the channel it was handed.
Recv(id, q) ==
    /\ Returned(id, q) /\ QLen(id, q) > 0 /\ recvLeft > 0
    /\ recvLeft' = recvLeft - 1
    /\ queues' = [queues EXCEPT ![id][q].rd = @ + 1]
    /\ UNCHANGED <<ids, startPc, isStarted, inbox, launched, lastStart, closed, outbox,
                   pending, maxReg, mutex, reg, pc, branch, msg, futureMsg, c,
                   reports, taken, afterUnreg, envLeft, regsLeft>>

\* ---------------------------------------------------------------------- Next
\* Every step but those of Start.
NextButStart ==
    \/ Close
    \/ \E kind \in {"nil", "bad", "empty"} : Take(kind, NoId)
    \/ \E id \in ids : Take("msg", id)
    \/ Snapshot
    \/ \E ok \in BOOLEAN : Validate(ok)
    \/ Lookup
    \/ Send
    \/ Park
    \/ Stop
    \/ \E id \in ids : RegisterBegin(id)
    \/ RegisterDrain
    \/ RegisterEnd
    \/ \E id \in ids : Unregister(id)
    \/ \E id \in ids : \E q \in 1 .. Len(queues[id]) : Recv(id, q)

\* Start is called from one task, one call after the other.
Next ==
    \/ Start
    \/ NextButStart

\* Start is called once from each task of StartTasks, the calls overlapping.
NextStartRace ==
    \/ \E t \in StartTasks : StartCheck(t)
    \/ \E t \in StartTasks : StartRun(t)
    \/ NextButStart

Spec == Init /\ [][Next]_vars

\* The same broker started from the loaded state.
SpecLoaded == InitLoaded /\ [][Next]_vars

\* A new broker whose Start is called concurrently.
SpecStartRace == InitFresh /\ [][NextStartRace]_vars

\* The same broker used with the ids of SkipIds.
SpecSkip == InitSkip /\ [][Next]_vars

\* Scheduling.  The Go scheduler runs every runnable goroutine: a dispatcher or
\* Register step that stays enabled is taken (weak fairness).  A select with
\* several ready cases picks one at random, so the close case, ready at every
\* select once the channel is closed, is taken eventually (strong fairness).
\* Nothing makes the transport deliver, a consumer read, or a caller call.
Fairness ==
    /\ WF_vars(Snapshot)
    /\ WF_vars(\E ok \in BOOLEAN : Validate(ok))
    /\ WF_vars(Lookup)
    /\ WF_vars(Send)
    /\ WF_vars(Park)
    /\ SF_vars(Stop)
    /\ WF_vars(RegisterDrain)
    /\ WF_vars(RegisterEnd)

FairSpecLoaded == InitLoaded /\ [][Next]_vars /\ Fairness

\* The same broker started from the state with a long pending list.
SpecParked == InitParked /\ [][Next]_vars
FairSpecParked == InitParked /\ [][Next]_vars /\ Fairness

\* ==================================================================== claims
IsPrefix(a, b) == Len(a) <= Len(b) /\ SubSeq(b, 1, Len(a)) = a

\* Messages in strictly increasing ingress position: ingress order, no repeat.
Increasing(s) == \A i \in 1 .. Len(s) - 1 : s[i].seq < s[i + 1].seq

\* The step in which Register unlocks and returns.
RegisterReturns == mutex = "register" /\ mutex' = "free"

\* The steps in which the dispatcher puts its message on a channel (broker.go:136)
\* or appends it to pending (broker.go:142).
DispatcherEnqueues == pc = "send" /\ pc' = "select"
DispatcherParks == pc = "park" /\ pc' = "select"

\* C1: every non-nil envelope the dispatcher takes gets exactly one
\* ReportValidation call, on every pipeline branch (undecodable, empty payload,
\* far future, rejected by the validator, accepted), and the call is made before
\* the dispatcher is back at its select, where it takes the next envelope.
C1_ReportedExactlyOnce ==
    /\ Len(reports) <= 1
    /\ (branch \in {"bad", "empty", "farfuture", "invalid"} => reports = <<FALSE>>)
    /\ (branch = "accepted" => reports = <<TRUE>>)
    /\ (branch = "msg" => pc \in {"snapshot", "validate"})
    /\ (pc \in {"select", "done"} /\ branch \notin {"none", "nil"} => Len(reports) = 1)

\* A second envelope has been taken and rejected by the validator, after a first
\* one that went through its own branch.
C1_Witness ==
    /\ taken >= 2 /\ pc = "select" /\ branch = "invalid" /\ reports = <<FALSE>>

\* C2: late registration.  When Register(k) returns, the channel it returns is
\* the one installed for k and holds exactly the messages that were parked in
\* pending[k] when it was called, in the order they were parked; pending has no
\* entry for k; maxReg = k when k was maxReg + 1.  The parked messages stay
\* ahead of every message routed to that channel later.
C2_LateRegistration ==
    /\ [][RegisterReturns =>
            LET k == reg.id
                q == queues'[k][Len(queues'[k])]
            IN  /\ outbox'[k] = Len(queues'[k])
                /\ q.parked = pending[k]
                /\ q.placed = q.parked /\ q.rd = 0
                /\ Increasing(q.parked)
                /\ pending'[k] = <<>>
                /\ (reg.wasNext => maxReg' = k)]_vars
    /\ [](\A k \in InstanceIds : \A q \in 1 .. Len(queues[k]) :
            Returned(k, q) => IsPrefix(queues[k][q].parked, queues[k][q].placed))

\* Register(1) was called with maxReg = 0 and a message parked for id 1, and a
\* later message for id 1 was routed to the returned channel behind it.
C2_Witness ==
    /\ maxReg = 1 /\ mutex = "free" /\ pending[1] = <<>>
    /\ \E q \in 1 .. Len(queues[1]) :
          /\ queues[1][q].parked # <<>>
          /\ Len(queues[1][q].placed) > Len(queues[1][q].parked)

\* C3: on every channel ever made for an id, the messages placed are messages
\* of that id taken from ingress, in ingress order, and no message is placed
\* on a channel more than once (neither on the same nor on another channel).
C3_QueueOrder ==
    \A k \in InstanceIds : \A q \in 1 .. Len(queues[k]) :
        LET p == queues[k][q].placed
        IN  /\ Increasing(p)
            /\ \A i \in 1 .. Len(p) : p[i].id = k /\ p[i].seq \in 1 .. taken
            /\ \A r \in 1 .. Len(queues[k]) : r # q =>
                  \A i \in 1 .. Len(p) : \A j \in 1 .. Len(queues[k][r].placed) :
                      p[i].seq # queues[k][r].placed[j].seq

\* Two messages were parked for an id and Register drained both.
C3_Witness ==
    \E k \in InstanceIds : \E q \in 1 .. Len(queues[k]) :
        /\ Returned(k, q)
        /\ Len(queues[k][q].parked) = 2
        /\ queues[k][q].placed = queues[k][q].parked

\* C4: once Close() has been called the dispatcher puts no message on a channel
\* and appends none to pending, whatever it was doing when Close() was called.
C4_NoPlacementAfterClose ==
    [][closed => ~(DispatcherEnqueues \/ DispatcherParks)]_vars

\* C5: a launched dispatcher terminates after Close(), in every state it can be
\* in at that moment.
C5_TerminatesAfterClose == (closed /\ pc # "idle") ~> (pc = "done")

\* C6: the first Start returns no error, sets isStarted, subscribes and launches
\* the dispatcher; every later Start returns the error and changes nothing of
\* the broker: one subscription, one dispatcher, the same inbox.
C6_StartOnce ==
    /\ [](IF lastStart = "none"
            THEN ~isStarted /\ inbox = 0 /\ launched = 0 /\ pc = "idle"
            ELSE isStarted /\ inbox = 1 /\ launched = 1 /\ pc # "idle")
    /\ [][(lastStart = "none" /\ lastStart' # "none") => lastStart' = "ok"]_vars
    /\ [][(lastStart # "none" /\ lastStart' # lastStart) =>
            /\ lastStart' = "err"
            /\ UNCHANGED <<brokerState, pc, msg, futureMsg, c>>]_vars

\* Start was called a second time while the dispatcher was processing a message.
C6_Witness ==
    /\ lastStart = "err"
    /\ pc \in {"snapshot", "validate", "lookup", "send", "park"}

\* C7: a decoded message whose id is greater than maxReg + 1, maxReg as read at
\* the snapshot, is reported false and dropped there: the validator is not
\* called for it, and outbox, the channels and pending are unchanged.
C7_FarFutureRejected ==
    [][(pc = "snapshot" /\ pc' # "snapshot" /\ msg.id > maxReg + 1) =>
         /\ reports' = <<FALSE>> /\ branch' = "farfuture" /\ pc' = "select"
         /\ UNCHANGED <<outbox, queues, pending>>]_vars

\* A far-future message was rejected while another message was parked.
C7_Witness ==
    /\ branch = "farfuture" /\ pc = "select" /\ reports = <<FALSE>>
    /\ \E k \in InstanceIds : pending[k] # <<>>

\* C8: a message for k taken after Register(k) and Unregister(k), with no
\* Register(k) since, is reported true when the validator accepts it, and is
\* neither put on a channel nor appended to pending.
C8_UnregisteredNotDelivered ==
    [][afterUnreg =>
         /\ ~(DispatcherEnqueues \/ DispatcherParks)
         /\ (pc = "validate" /\ pc' = "lookup" => reports' = <<TRUE>>)]_vars

\* C9: back-pressure.  No channel ever holds more than InboxCapacity messages;
\* a dispatcher whose message found a full channel stays at the send with that
\* message, taking no envelope, as long as the channel is full; and it leaves
\* the send only by putting that message at the end of that channel.
C9_BackPressure ==
    /\ [](\A k \in InstanceIds : \A q \in 1 .. Len(queues[k]) :
            QLen(k, q) <= InboxCapacity)
    /\ [][(pc = "send" /\ QLen(msg.id, c) >= InboxCapacity) =>
            /\ pc' = "send" /\ msg' = msg /\ c' = c /\ taken' = taken
            /\ queues'[msg.id][c].placed = queues[msg.id][c].placed]_vars
    /\ [][(pc = "send" /\ pc' # "send") =>
            queues'[msg.id][c].placed = Append(queues[msg.id][c].placed, msg)]_vars

\* The dispatcher is blocked: its accepted message found the channel full.
C9_Witness ==
    /\ pc = "send" /\ branch = "accepted"
    /\ QLen(msg.id, c) = InboxCapacity

\* C10: whenever the lock is free, no id has both an entry in outbox and a
\* non-empty list in pending.
C10_PendingEmptyWhenRegistered ==
    mutex = "free" =>
        \A k \in InstanceIds : outbox[k] # NoQueue => pending[k] = <<>>

\* The ids passed to Register so far: Register makes a channel at every call.
EverRegistered == {i \in InstanceIds : queues[i] # <<>>}

\* C11: maxReg is the largest id ever passed to Register (0 if none) and never
\* decreases; it changes only in a Register(id) with id > maxReg, so Register of
\* an id <= maxReg, Unregister, Start, Close and the dispatcher leave it alone.
C11_MaxRegMonotone ==
    /\ [](IF EverRegistered = {}
            THEN maxReg = 0
            ELSE maxReg \in EverRegistered /\ \A i \in EverRegistered : i <= maxReg)
    /\ [][maxReg' >= maxReg]_vars
    /\ [][maxReg' # maxReg =>
            mutex = "free" /\ mutex' = "register" /\ reg'.id = maxReg' /\ reg'.id > maxReg]_vars

\* Register(0) is running after Register(1) and Unregister(1): maxReg is still 1.
C11_Witness ==
    /\ mutex = "register" /\ reg.id = 0
    /\ maxReg = 1 /\ Unregistered(1)

\* C12: Unregister(id) removes outbox[id] and nothing else: every other outbox
\* entry, pending, maxReg and every channel (the messages in it, the removed
\* channel included) are as before, and no channel is ever closed.
C12_UnregisterFrame ==
    /\ [][\A id \in InstanceIds :
            (outbox[id] # NoQueue /\ outbox'[id] = NoQueue) =>
                /\ \A k \in InstanceIds \ {id} : outbox'[k] = outbox[k]
                /\ UNCHANGED <<pending, maxReg, queues, mutex, reg, closed>>
                /\ UNCHANGED <<pc, msg, futureMsg, c, reports>>]_vars
    /\ [](\A k \in InstanceIds : \A q \in 1 .. Len(queues[k]) :
            ~queues[k][q].isClosed)

\* Unregister(0) removed a channel that holds a message, while a message for
\* id 1 is parked.
C12_Witness ==
    /\ Unregistered(0) /\ QLen(0, Len(queues[0])) > 0
    /\ pending[1] # <<>>

\* C13: Register(id) racing the routing of an accepted near-future message for
\* id.  The message is parked only while id has no installed channel, so the
\* drain of Register(id) puts it on the channel Register returns; once id has
\* a channel and pending[id] is empty, no step leaves a message in pending[id].
C13_RegisterRace ==
    /\ [][DispatcherParks => outbox[msg.id] = NoQueue]_vars
    /\ [][\A k \in InstanceIds :
            (outbox[k] # NoQueue /\ pending[k] = <<>>) => pending'[k] = <<>>]_vars

\* The ids that have a non-empty list in pending.
PendingKeys == {k \in InstanceIds : pending[k] # <<>>}

\* C14: pending has at most one key with a non-empty list, whatever ids are
\* registered (ids beyond maxReg + 1 included) and however dispatch interleaves.
C14_OnePendingKey == Cardinality(PendingKeys) <= 1

\* A Register call holds the write lock and its next send finds the channel full.
RegisterBlocked ==
    /\ mutex = "register" /\ reg.todo # <<>>
    /\ QLen(reg.id, outbox[reg.id]) >= InboxCapacity

\* C15: no task holds the lock at a point where it can block.  The dispatcher's
\* locked sections (broker.go:105-107, 131-133, 138-143) hold neither the call
\* of the validator nor a send, so they are single steps of the model and the
\* dispatcher is never at validate or at send with the lock; what is left to
\* check is Register, which sends inside its locked section: it never waits
\* at a send with the lock held.
C15_NoLockAcrossBlocking == ~RegisterBlocked

\* C16: every Register call returns and releases the write lock, however many
\* messages are parked for its id.
C16_RegisterReturns == (mutex = "register") ~> (mutex = "free")

\* C17: however many tasks call Start and however the calls interleave, at most
\* one dispatcher is launched, at most one subscription is made and at most one
\* call returns nil.
C17_OneDispatcher ==
    /\ launched <= 1
    /\ inbox <= 1
    /\ Cardinality({t \in StartTasks : startPc[t] = "ok"}) <= 1

\* C18: a message is put on a channel or appended to pending only after it was
\* reported true, whether or not its id has a channel: the dispatcher is past
\* the validator only with the verdict true reported; the only steps that add
\* to a channel are the dispatcher's send of that message and Register's send
\* of a parked message; the only step that adds to pending is the dispatcher's
\* append of that message; and the step that reports false drops the message.
C18_ReportedBeforePlaced ==
    /\ [](pc \in {"lookup", "send", "park"} => reports = <<TRUE>> /\ msg # NoMsg)
    /\ [][\A k \in InstanceIds : \A q \in 1 .. Len(queues[k]) :
            queues'[k][q].placed # queues[k][q].placed =>
                \/ /\ pc = "send" /\ reports = <<TRUE>> /\ k = msg.id /\ q = c
                   /\ queues'[k][q].placed = Append(queues[k][q].placed, msg)
                \/ /\ mutex = "register" /\ k = reg.id /\ q = outbox[k]
                   /\ \E i \in 1 .. Len(pending[k]) :
                         queues'[k][q].placed =
                             Append(queues[k][q].placed, pending[k][i])]_vars
    /\ [][\A k \in InstanceIds :
            (pending'[k] # pending[k] /\ pending'[k] # <<>>) =>
                /\ pc = "park" /\ reports = <<TRUE>> /\ k = msg.id
                /\ pending'[k] = Append(pending[k], msg)]_vars
    /\ [][(reports' = <<FALSE>> /\ (reports' # reports \/ taken' # taken)) =>
            /\ pc' = "select" /\ msg' = NoMsg
            /\ UNCHANGED <<queues, pending>>]_vars

\* An accepted message was put on the channel of id 0 and another one, for id 1
\* that has no channel, was parked.
C18_Witness ==
    /\ outbox[0] # NoQueue /\ QLen(0, outbox[0]) > 0
    /\ outbox[1] = NoQueue /\ pending[1] # <<>>
    /\ reports = <<TRUE>> /\ pc = "select"

\* The pipeline branches that end an envelope without routing it.
Rejected == {"nil", "bad", "empty", "farfuture", "invalid"}

\* C19: a rejected or skipped envelope does not stop the dispatcher and changes
\* neither outbox, pending, maxReg nor a channel.  No dispatcher step before
\* the lookup writes any of them; after the rejection the dispatcher is at its
\* select with its locals reset, where it takes the next envelope if there is
\* one; and it is done only after Close.
C19_RejectionIsLocal ==
    /\ [][((pc = "select" /\ taken' # taken) \/
           (pc \in {"snapshot", "validate"} /\ pc' # pc)) =>
            UNCHANGED <<outbox, pending, maxReg, queues, mutex, closed>>]_vars
    /\ [][(branch' \in Rejected /\ (branch' # branch \/ taken' # taken)) =>
            pc' = "select"]_vars
    /\ [](branch \in Rejected =>
            /\ pc \in {"select", "done"}
            /\ msg = NoMsg /\ ~futureMsg /\ c = NoQueue)
    /\ [](pc = "select" /\ envLeft > 0 =>
            ENABLED (\E id \in ids : Take("msg", id)))
    /\ [](pc = "done" => closed)

\* A second envelope was rejected as far future; the dispatcher is back at its
\* select, the broker is open and id 0 is registered.
C19_Witness ==
    /\ taken >= 2 /\ branch = "farfuture" /\ pc = "select"
    /\ ~closed /\ outbox[0] # NoQueue

\* C20: every id with parked messages is at least 1 and at most maxReg + 1.
C20_PendingKeysInRange ==
    \A k \in PendingKeys : 1 <= k /\ k <= maxReg + 1

\* C21: whatever maxReg is, the largest id included, a message whose id is at
\* most the maxReg read at the snapshot passes the gate: it is not rejected as
\* far future and not marked as a future message.
C21_GateNoWrap ==
    [][(pc = "snapshot" /\ pc' # "snapshot" /\ msg.id <= maxReg) =>
         /\ pc' = "validate" /\ futureMsg' = FALSE
         /\ reports' = reports]_vars

====
